---- MODULE Spec2Model ----
(***************************************************************************)
(* Middleware Brigade: compose() and the dispatch/termination protocol of  *)
(* src/index.js.                                                           *)
(*                                                                         *)
(* JavaScript is single threaded and runs every synchronous turn to        *)
(* completion.  The model keeps an explicit call stack of middleware       *)
(* activations: while the stack is not empty the only enabled steps are    *)
(* those of the activation on top of it; when it is empty the event loop   *)
(* resumes one suspended activation, settles one pending promise of an     *)
(* outer continuation, or the caller invokes the composed middleware.      *)
(* Positions are 0-based as in the source; brigade[i + 1] is middleware i. *)
(***************************************************************************)
EXTENDS Integers, Sequences, FiniteSets, TLC

\* Largest brigade that is composed.
MaxLen == 3

(***************************************************************************)
(* Middleware functions.  A middleware is an input of compose(); each is   *)
(* given by whether it is an `async` function and by the statements it     *)
(* executes:                                                               *)
(*   next     r = next()              skip    r = skipNext()               *)
(*   tick     await <something else>  awaitR  r = await r                  *)
(*   retR     return r                retOwn  return <a value of its own>  *)
(*   retU     return undefined        throw   throw new Error()            *)
(*   nextA    r = next(request, next, skipNext)                            *)
(*   skipA    r = skipNext(request, next, skipNext)                        *)
(* "NotAFunction" is an element of the array that is not a function.       *)
(***************************************************************************)
Scripts ==
  { "Fwd", "SyncNext", "SyncSkip", "LateNext", "LateSkip",
    "NextNext", "NextSkip", "SkipSkip", "SkipNext", "Drop",
    "Own", "Plain", "Throw", "Reject" }

IsAsync(s) ==
  s \in { "Fwd", "LateNext", "LateSkip", "NextSkip", "SkipNext", "Drop", "Own",
          "Reject", "FwdArgs" }

Code(s) ==
  CASE s = "Fwd"      -> << "next", "awaitR", "retR" >>
    [] s = "SyncNext" -> << "next", "retR" >>
    [] s = "SyncSkip" -> << "skip", "retR" >>
    [] s = "LateNext" -> << "tick", "next", "retR" >>
    [] s = "LateSkip" -> << "tick", "skip", "retR" >>
    [] s = "NextNext" -> << "next", "next", "retR" >>
    [] s = "NextSkip" -> << "next", "skip", "retR" >>
    [] s = "SkipSkip" -> << "skip", "skip", "retR" >>
    [] s = "SkipNext" -> << "skip", "awaitR", "next", "awaitR", "retU" >>
    [] s = "Drop"     -> << "next", "retU" >>
    [] s = "Own"      -> << "retOwn" >>
    [] s = "Plain"    -> << "retOwn" >>
    [] s = "Throw"    -> << "throw" >>
    [] s = "Reject"   -> << "throw" >>
    [] s = "FwdArgs"  -> << "nextA", "awaitR", "retR" >>
    [] s = "SkipArgs" -> << "skipA", "retR" >>

\* What the outer continuations next() and skipNext() may do when called.
OuterKinds == { "resolved", "pending", "throw", "plain" }

\* Non-promise values a middleware may return: 0, 'woof', null, undefined, {}.
PlainValues == { "zero", "woof", "null", "undefined", "object" }

\* JavaScript's typeof; every other value of the model is an object.
TypeOf(v) ==
  CASE v = "zero" -> "number"
    [] v = "woof" -> "string"
    [] v = "undefined" -> "undefined"
    [] OTHER -> "object"

VARIABLES
  brigade,        \* the array given to compose(): a sequence of middleware
  plain,          \* the non-promise value the middleware "Plain" returns
  entry,          \* how the caller runs the brigade: the composed middleware
                  \* with continuations of its own, or through callMiddleware
  response,       \* the response object given to callMiddleware
  inner,          \* the brigade of the composed middleware "Nested"
  units,          \* the composed middleware each call of the caller is made on:
                  \* "brigade" is compose(brigade), "flat" is compose of the
                  \* brigade with the middleware of inner in the place of "Nested"
  anonymous,      \* the middleware that are functions without a name
  args,           \* what else the caller passes: the kind of value given to
                  \* compose, as next, as skipNext, and to callMiddleware as
                  \* middleware and as request
  version,        \* which of the two versions of callMiddleware is called
  composed,       \* "no" before compose() is called, then "yes" or "failed"
  thrown,         \* errors thrown synchronously to the caller
  outerArgs,      \* the arguments of every call of an outer continuation
  toInvoke,       \* calls of the composed middleware the caller still makes
  hasTerminated,  \* per invocation: the closure variable hasTerminated
  result,         \* per invocation: promise the composed middleware returned
  acts,           \* activations of middleware functions
  stack,          \* the JavaScript call stack (activation ids, top last)
  proms,          \* every promise created so far
  events,         \* log of calls made, in the order they happened
  final,          \* per invocation: the promise callMiddleware returned
  parent          \* per invocation: the request composedMiddleware was
                  \* given, and the invocation and position whose dispatch
                  \* called it (inv = 0: the caller did)

\* What the caller supplies; none of it is ever modified.
inputs == << brigade, plain, entry, response, inner, units, anonymous, args, version >>

\* What the caller has done so far.
callerState == << toInvoke, composed, thrown >>

vars == << inputs, callerState, hasTerminated, result, acts, stack, proms, events,
          final, parent, outerArgs >>

NoVal == "none"
NoErr == [k |-> "none", pos |-> -1, op |-> "none", name |-> "none"]

\* The name left in the code for a position that is not in the brigade.
Placeholder == "XYZZY-UPDATE-ME"

\* Variant: a function without a name is given the placeholder.
NameOfOrPlaceholder(s) == IF s \in anonymous THEN Placeholder ELSE s

\* `middleware[i].name`: the name property of a function is the name it was
\* declared with, and the empty string when it has none.
NameOf(s) == IF s \in anonymous THEN "" ELSE s

\* src/index.js locatedError: `Composed middleware #${i} '${name}' ${message}`
LocatedError(b, i, message, op) ==
  [k |-> message, pos |-> i, op |-> op,
   name |-> IF i < 0 THEN Placeholder
            ELSE IF i < Len(b) THEN NameOf(b[i + 1])
            ELSE Placeholder]

\* The error of a failed invariant() call; op tells which one.
InvariantError(what) == [k |-> "invariant", pos |-> -1, op |-> what, name |-> "none"]

\* The TypeError of calling a value that is not a function.
NotCallableError(what) == [k |-> "notcallable", pos |-> -1, op |-> what, name |-> "none"]

\* Arguments that pass every check.
ValidArgs ==
  [stack |-> "array", next |-> "function", skipNext |-> "function",
   middleware |-> "function", request |-> "object"]

\* Array.isArray(middleware)
IsArray(v) == v = "array"

\* typeof v === 'function', for an argument or an element of the brigade
Callable(v) == v \notin { "object", "null", "zero", "undefined", "NotAFunction" }

\* An error thrown by a middleware (pos >= 0) or an outer continuation.
Thrown(pos, op) == [k |-> "thrown", pos |-> pos, op |-> op, name |-> "none"]

Resolved(v, src) == [st |-> "resolved", val |-> v, err |-> NoErr, to |-> 0, src |-> src]
Rejected(e, src) == [st |-> "rejected", val |-> NoVal, err |-> e, to |-> 0, src |-> src]
Pending(src)     == [st |-> "pending", val |-> NoVal, err |-> NoErr, to |-> 0, src |-> src]
Follow(p, src)   == [st |-> "follow", val |-> NoVal, err |-> NoErr, to |-> p, src |-> src]

\* The state a promise has, through the promises it was resolved with.
RECURSIVE Eff(_, _)
Eff(ps, p) == IF ps[p].st = "follow" THEN Eff(ps, ps[p].to) ELSE ps[p]

Ev(e, inv, pos) == [e |-> e, inv |-> inv, pos |-> pos]

\* Response objects handed to callMiddleware.
Responses == { "resp" }

\* callMiddleware's error for a result that is not the response.
UnexpectedError == [k |-> "unexpected", pos |-> -1, op |-> "none", name |-> "none"]

\* Variant: only the next continuation resolves to the response.
TerminateValueNextOnly(resp, op) == IF op = "next" THEN resp ELSE "undefined"

\* callMiddleware: `const terminate = () => Promise.resolve(response)`, given
\* as next and as skipNext.
TerminateValue(resp, op) == resp

\* Value the outer continuations resolve to.
OuterValue(op) ==
  IF entry = "callMiddleware" THEN TerminateValue(response, op)
  ELSE IF op = "next" THEN "vNext" ELSE "vSkip"

\* What an outer continuation may do when called; terminate only resolves.
OuterKindsNow == IF entry = "callMiddleware" THEN { "resolved" } ELSE OuterKinds

\* Variant: the result is never taken to be unexpected.
UnexpectedResultNever(resp, v) == FALSE

\* callMiddleware: `if (result !== response)`
UnexpectedResult(resp, v) == v # resp

\* Variant: a rejection of the brigade is replaced by the error for an
\* unexpected response.
ThenRejectedChecked(err) == Rejected(UnexpectedError, "then")

\* callMiddleware: then() is given no rejection handler, so the promise it
\* makes rejects with the reason the promise of the middleware rejected with.
ThenRejected(err) == Rejected(err, "then")

\* Variant: the callback returns the result without looking at it.
ThenResultUnchecked(resp, v) == Resolved(v, "then")

\* callMiddleware: the callback given to then()
ThenResult(resp, v) ==
  IF UnexpectedResult(resp, v) THEN Rejected(UnexpectedError, "then")
  ELSE Resolved(v, "then")

\* typeof v === 'object' && v !== null
IsNonNullObject(v) == TypeOf(v) = "object" /\ v # "null"

\* callMiddleware's error for an undefined result (the version with checks).
UndefinedResultError == [k |-> "undefinedResult", pos |-> -1, op |-> "none", name |-> "none"]

\* The version of callMiddleware with checks: the callback given to then()
ThenResultOrUndefined(resp, v) ==
  IF resp # "undefined" /\ v # resp THEN Rejected(UnexpectedError, "then")
  ELSE IF v = "undefined" THEN Rejected(UndefinedResultError, "then")
  ELSE Resolved(v, "then")

\* The version of callMiddleware with checks: its three invariant() calls.
\* The result is the error thrown, NoErr when the arguments pass.
CallMiddlewareChecks(a, resp) ==
  IF ~Callable(a.middleware) THEN InvariantError("middleware")
  ELSE IF ~IsNonNullObject(a.request) THEN InvariantError("request")
  ELSE IF ~( resp = "undefined" \/ IsNonNullObject(resp) ) THEN InvariantError("response")
  ELSE NoErr

\* src/index.js callMiddleware checks nothing; calling a middleware that is
\* not a function throws a TypeError.
CallMiddlewareNoChecks(a, resp) ==
  IF ~Callable(a.middleware) THEN NotCallableError("middleware") ELSE NoErr

\* The request the caller passes in its k-th call.
RequestOfCall(k) == << args.request, k >>

\* The state before the caller has called anything.
NothingCalled ==
  /\ composed = "no"
  /\ thrown = << >>
  /\ outerArgs = << >>
  /\ final = << >>
  /\ parent = << >>
  /\ hasTerminated = << >>
  /\ result = << >>
  /\ acts = << >>
  /\ stack = << >>
  /\ proms = << >>
  /\ events = << >>

Init ==
  /\ brigade \in UNION { [1..n -> Scripts] : n \in 0..MaxLen }
  /\ plain \in IF \E j \in 1..Len(brigade) : brigade[j] = "Plain"
               THEN PlainValues ELSE { "zero" }
  /\ entry \in { "composed", "callMiddleware" }
  /\ response \in Responses
  /\ inner = << >>
  /\ anonymous = { }
  /\ args = ValidArgs
  /\ version = "index.js"
  /\ composed = "no"
  /\ thrown = << >>
  /\ outerArgs = << >>
  /\ units = << "brigade" >>
  /\ toInvoke = 1
  /\ final = << >>
  /\ parent = << >>
  /\ hasTerminated = << >>
  /\ result = << >>
  /\ acts = << >>
  /\ stack = << >>
  /\ proms = << >>
  /\ events = << >>


\* Composed middleware unit was called by the caller, with request req.
ByCaller(req, unit) == [inv |-> 0, pos |-> 0, request |-> req, unit |-> unit]

\* The composed middleware the caller calls next.
NextUnit == units[Len(units) - toInvoke + 1]

\* The brigade b with the middleware of in in the place of each "Nested".
RECURSIVE Flatten(_, _)
Flatten(b, in) ==
  IF b = << >> THEN << >>
  ELSE ( IF Head(b) = "Nested" THEN in ELSE << Head(b) >> ) \o Flatten(Tail(b), in)

\* Variant: every invocation hands on the request of the first one.
PassedRequestFirst(P, inv) == P[1].request

\* dispatch: `middleware[i](request, dispatchNext, dispatchSkipNext)`: the
\* request is the parameter of the enclosing composedMiddleware.
PassedRequest(P, inv) == P[inv].request

\* Variant: the outer continuations are called like a middleware.
OuterCallArgsForwarded(given) == given

\* dispatch: `next()`, dispatchSkipNext: `skipNext()`.  given is what the
\* call that led here was given: composedMiddleware its three parameters,
\* dispatchNext and dispatchSkipNext what the middleware passed to them.
OuterCallArgs(given) == << >>

\* The arguments of composedMiddleware.
MiddlewareArgs == << "request", "next", "skipNext" >>

\* The arguments a middleware passes to next or skipNext; "nextA" and "skipA"
\* are calls that pass the middleware's own three arguments on.
CallArgs(op) == IF op \in { "nextA", "skipA" } THEN MiddlewareArgs ELSE << >>

\* What calling outer continuation op may do: a value that is not a function
\* cannot be called, the attempt throws.
OuterKindsOf(op) == IF Callable(args[op]) THEN OuterKindsNow ELSE { "throw" }

\* The array the composed middleware of invocation inv was composed from.
BrigadeIn(P, inv) ==
  IF P[inv].inv # 0 THEN inner
  ELSE IF P[inv].unit = "flat" THEN Flatten(brigade, inner)
  ELSE brigade

\* The invocation made by the caller that invocation inv is part of.
RECURSIVE Root(_, _)
Root(P, inv) == IF P[inv].inv = 0 THEN inv ELSE Root(P, P[inv].inv)

\* The middleware function activation a runs.
MwOf(a) == BrigadeIn(parent, acts[a].inv)[acts[a].pos + 1]

\* No promise: the invocation was not made through callMiddleware.
NoPromise == [st |-> "none", val |-> NoVal, err |-> NoErr, to |-> 0, src |-> "none"]

Top == stack[Len(stack)]
Running == stack # << >>

\* Variant: the two continuations are handed over in the wrong order.
BoundSwapped(op) ==
  IF op = "next" THEN "skip" ELSE IF op = "skip" THEN "next" ELSE op

\* dispatch: `middleware[i](request, dispatchNext, dispatchSkipNext)`: which
\* continuation the middleware reaches through its second and third parameter.
Bound(op) == op

\* The statement the running activation executes next.
CurOp == Bound(Code(MwOf(Top))[acts[Top].pc])

\* Variant: the flag starts out set.
FreshFlagSet == TRUE

\* composedMiddleware: `let hasTerminated = false`
FreshFlag == FALSE

\* Variant: past the end of the brigade skipNext is called.
EndOpSkip == "skipNext"

\* dispatch: `result = next()` past the end of the brigade
EndOp == "next"

\* Variant: dispatchNext passes over a position.
NextIndexSkipsOne(i) == i + 2

\* dispatchNext: `return dispatch(i + 1)`
NextIndex(i) == i + 1

\* Variant: dispatch does not test the flag on entry.
TerminatedOnEntryUnchecked(H, inv) == FALSE

\* dispatch: `if (hasTerminated)` on entry
TerminatedOnEntry(H, inv) == H[inv]

\* Variant: dispatchSkipNext does not test the flag.
TerminatedOnSkipUnchecked(H, inv) == FALSE

\* dispatchSkipNext: `if (hasTerminated)`
TerminatedOnSkip(H, inv) == H[inv]

\* Variant: the violation found on entry is located at the entered position.
EntryViolationPosHere(i) == i

\* dispatch: `locatedError(middleware, i - 1, ...)` for a next after termination
EntryViolationPos(i) == i - 1

\* Variant: the skipNext violation is located one position upstream.
SkipViolationPosUpstream(i) == i - 1

\* dispatchSkipNext: `locatedError(middleware, i, ...)`
SkipViolationPos(i) == i

\* Variant: the type error is located one position upstream.
TypeErrorPosUpstream(i) == i - 1

\* dispatch: `locatedError(middleware, i, ...)` for a value that is no promise
TypeErrorPos(i) == i

\* The value `return <a value of its own>` returns in middleware s.
OwnValue(s) == IF IsAsync(s) THEN "own" ELSE plain

\* Variant: the catch block rejects with a located error of its own.
CatchReasonWrapped(err, i) == LocatedError(brigade, i, "failed", "catch")

\* dispatch: `catch (err) { return Promise.reject(err); }`
CatchReason(err, i) == err

\* Variant: dispatch(0) calls its middleware outside the try block.
InTryBelowFirst(i) == i > 0

\* dispatch: `try { ... }` encloses the call of middleware[i] and of next()
InTry(i) == TRUE

\* dispatch: `if (i < middleware.length)`
InBounds(b, i) == i < Len(b)

\* Variant: one flag serves every invocation in progress.
MarkTerminatedAtEndAll(H, inv) == [k \in DOMAIN H |-> TRUE]

\* dispatch: `hasTerminated = true` before `result = next()`
MarkTerminatedAtEnd(H, inv) == [H EXCEPT ![inv] = TRUE]

\* Variant: the flag is set after the call of next, so not when next throws.
FlagWhenOuterCalledLate(H, H2, kind) == IF kind = "throw" THEN H ELSE H2

\* dispatch: `hasTerminated = true; result = next();`: the flag holds its new
\* value H2 while next runs and whatever next does.
FlagWhenOuterCalled(H, H2, kind) == H2

\* Variant: dispatchSkipNext leaves the flag as it is.
MarkTerminatedOnSkipNot(H, inv) == H

\* dispatchSkipNext: `hasTerminated = true` before `return skipNext()`
MarkTerminatedOnSkip(H, inv) == [H EXCEPT ![inv] = TRUE]

\* A fresh activation of middleware i of brigade b; an async function owns
\* a promise.
NewAct(b, inv, i, req) ==
  [inv |-> inv, pos |-> i, req |-> req, pc |-> 1, rp |-> 0, rv |-> NoVal,
   prom |-> IF IsAsync(b[i + 1]) THEN Len(proms) + 1 ELSE 0,
   st |-> "run", called |-> TRUE]

(***************************************************************************)
(* Activation a leaves the call stack: it suspended or it completed.  If   *)
(* it was still in the synchronous segment started by dispatch (called),   *)
(* dispatch returns promise p to whoever called it: to the dispatchNext of *)
(* the activation below on the stack, or to the caller of the composed     *)
(* middleware.  A composed middleware nested in a brigade hands the        *)
(* promise on as it is.                                                    *)
(***************************************************************************)
Finish(a, newst, ps, p, ev, H, R) ==
  LET called == acts[a].called
      hasCaller == called /\ Len(stack) > 1
      c == IF hasCaller THEN stack[Len(stack) - 1] ELSE a
      acts1 == [acts EXCEPT ![a].st = newst, ![a].called = FALSE]
  IN /\ acts' = IF hasCaller
                THEN [acts1 EXCEPT ![c].rp = p, ![c].rv = NoVal, ![c].pc = @ + 1]
                ELSE acts1
     /\ result' = IF called /\ ~hasCaller
                  THEN [R EXCEPT ![Root(parent, acts[a].inv)] = p]
                  ELSE R
     /\ stack' = SubSeq(stack, 1, Len(stack) - 1)
     /\ proms' = ps
     /\ events' = ev
     /\ hasTerminated' = H

(***************************************************************************)
(* Middleware activation a ends with a returned promise, a returned plain  *)
(* value or an exception.  An async function settles its own promise.  For *)
(* a plain function the try block of dispatch decides: a promise-like      *)
(* value is returned as it is, any other value becomes a rejection with a  *)
(* TypeError located at the position, an exception becomes a rejection.    *)
(* An exception no try block encloses leaves composedMiddleware: its       *)
(* caller gets no promise.                                                 *)
(***************************************************************************)
\* Variant: the value an async middleware returns is lost.
AsyncReturnLost(val) == Resolved("undefined", "mw")

\* An async function that returns a value resolves its promise to it; dispatch
\* hands that promise on as it is.
AsyncReturn(val) == Resolved(val, "mw")

MwOutcome(a, kind, pid, val, err, ev, H, R) ==
  LET me == acts[a]
      b == BrigadeIn(parent, me.inv)
      fresh == Len(proms) + 1
  IN IF IsAsync(MwOf(a))
     THEN Finish(a, "done",
                 [proms EXCEPT ![me.prom] =
                    CASE kind = "promise" -> Follow(pid, "mw")
                      [] kind = "plain"   -> AsyncReturn(val)
                      [] kind = "throw"   -> Rejected(err, "mw")],
                 me.prom, ev, H, R)
     ELSE CASE kind = "promise" -> Finish(a, "done", proms, pid, ev, H, R)
            [] kind = "plain" ->
                 Finish(a, "done",
                        Append(proms, Rejected(LocatedError(b, TypeErrorPos(me.pos), "type", TypeOf(val)),
                                               "dispatch")),
                        fresh, ev, H, R)
            [] kind = "throw" ->
                 IF InTry(me.pos) \/ Len(stack) > 1
                 THEN Finish(a, "done",
                             Append(proms, Rejected(CatchReason(err, me.pos), "dispatch")),
                             fresh, ev, H, R)
                 ELSE /\ acts' = [acts EXCEPT ![a].st = "done", ![a].called = FALSE]
                      /\ stack' = SubSeq(stack, 1, Len(stack) - 1)
                      /\ events' = ev
                      /\ hasTerminated' = H
                      /\ result' = R
                      /\ UNCHANGED proms

Raise(a, err, ev, H, R) == MwOutcome(a, "throw", 0, NoVal, err, ev, H, R)

\* Variant: dispatch calls next() and returns a promise of its own.
EndResultDropped(kind, i, b) == Resolved("undefined", "dispatch")

\* What dispatch past the end of the brigade returns for `result = next()`.
EndResult(kind, i, b) ==
  CASE kind = "resolved" -> Resolved(OuterValue(EndOp), EndOp)
    [] kind = "pending"  -> Pending(EndOp)
    [] kind = "throw"    -> Rejected(CatchReason(Thrown(-1, EndOp), i), "dispatch")
    [] kind = "plain"    -> Rejected(LocatedError(b, TypeErrorPos(i), "type", TypeOf("plain")),
                                     "dispatch")

\* dispatch returns promise p to the dispatchNext of activation caller, or
\* (caller = 0) composedMiddleware returns it to the caller.
Deliver(caller, p, R, root) ==
  /\ stack' = stack
  /\ IF caller = 0
     THEN /\ result' = [R EXCEPT ![root] = p]
          /\ acts' = acts
     ELSE /\ result' = R
          /\ acts' = [acts EXCEPT ![caller].rp = p,
                                  ![caller].rv = NoVal,
                                  ![caller].pc = @ + 1]

(***************************************************************************)
(* dispatch(i) for invocation inv, reached from activation `caller`        *)
(* through its dispatchNext (caller = 0: from the caller of the composed   *)
(* middleware).  try is the position of the dispatch whose try block       *)
(* encloses this call (-1: none does, the call was made by the code of a   *)
(* middleware).  A middleware that is itself a composed middleware starts  *)
(* an invocation of its own brigade, with the dispatchNext and the         *)
(* dispatchSkipNext of position i for its next and skipNext; past the end  *)
(* of its brigade it calls that dispatchNext.                              *)
(***************************************************************************)
RECURSIVE Dispatch(_, _, _, _, _, _, _, _, _)
Dispatch(inv, i, caller, try, H, P, R, ev, given) ==
  LET b == BrigadeIn(P, inv)
      tryHere == IF InTry(i) THEN i ELSE try
  IN
  IF TerminatedOnEntry(H, inv)
  THEN LET err == LocatedError(b, EntryViolationPos(i), "terminated", "next")
           ev2 == Append(ev, Ev("violationNext", inv, EntryViolationPos(i)))
       IN IF try >= 0
          THEN \* caught by the dispatch that made the call
               /\ proms' = Append(proms, Rejected(CatchReason(err, try), "dispatch"))
               /\ Deliver(caller, Len(proms) + 1, R, Root(P, inv))
               /\ events' = ev2
               /\ hasTerminated' = H
               /\ parent' = P
               /\ outerArgs' = outerArgs
          ELSE IF caller = 0
          THEN \* thrown out of composedMiddleware: no promise is returned
               /\ events' = ev2
               /\ hasTerminated' = H
               /\ result' = R
               /\ parent' = P
               /\ outerArgs' = outerArgs
               /\ UNCHANGED << acts, stack, proms >>
          ELSE /\ Raise(caller, err, ev2, H, R)
               /\ parent' = P
               /\ outerArgs' = outerArgs
  ELSE IF InBounds(b, i)
  THEN IF b[i + 1] = "Nested"
       THEN Dispatch(Len(H) + 1, 0, caller, tryHere, Append(H, FreshFlag),
                     Append(P, [inv |-> inv, pos |-> i, request |-> PassedRequest(P, inv),
                                unit |-> "inner"]),
                     Append(R, 0), Append(ev, Ev("enter", inv, i)), MiddlewareArgs)
       ELSE IF ~Callable(b[i + 1])
       THEN \* the call of an element that is not a function throws
            /\ proms' = Append(proms, Rejected(CatchReason(NotCallableError("element"), i),
                                               "dispatch"))
            /\ Deliver(caller, Len(proms) + 1, R, Root(P, inv))
            /\ events' = ev
            /\ hasTerminated' = H
            /\ parent' = P
            /\ outerArgs' = outerArgs
       ELSE /\ acts' = Append(acts, NewAct(b, inv, i, PassedRequest(P, inv)))
            /\ stack' = Append(stack, Len(acts) + 1)
            /\ proms' = IF IsAsync(b[i + 1]) THEN Append(proms, Pending("mw")) ELSE proms
            /\ events' = Append(ev, Ev("enter", inv, i))
            /\ hasTerminated' = H
            /\ result' = R
            /\ parent' = P
            /\ outerArgs' = outerArgs
  ELSE LET H2 == MarkTerminatedAtEnd(H, inv)
           ev2 == Append(ev, Ev(IF EndOp = "next" THEN "outerNext" ELSE "outerSkip", inv, i))
       IN IF P[inv].inv # 0
          THEN Dispatch(P[inv].inv, NextIndex(P[inv].pos), caller, tryHere, H2, P, R,
                        Append(ev2, Ev("callNext", P[inv].inv, P[inv].pos)),
                        OuterCallArgs(given))
          ELSE \E kind \in OuterKindsOf(EndOp) :
               /\ hasTerminated' = FlagWhenOuterCalled(H, H2, kind)
               /\ parent' = P
               /\ outerArgs' = Append(outerArgs,
                                      [op |-> EndOp, args |-> OuterCallArgs(given), inv |-> inv,
                                       kind |-> kind,
                                       prom |-> IF kind \in { "resolved", "pending" }
                                                THEN Len(proms) + 1 ELSE 0])
               /\ events' = ev2 \o IF kind = "throw"
                                   THEN << Ev(IF EndOp = "next" THEN "nextThrew" ELSE "skipThrew",
                                              inv, i) >>
                                   ELSE << >>
               /\ IF kind = "throw" /\ caller = 0 /\ ~InTry(i)
                  THEN /\ result' = R
                       /\ UNCHANGED << acts, stack, proms >>
                  ELSE /\ proms' = Append(proms, EndResult(kind, i, b))
                       /\ Deliver(caller, Len(proms) + 1, R, inv)

\* Variant: the brigade is taken to be an array whatever it is.
IsArrayUnchecked(v) == TRUE

\* compose: `invariant(Array.isArray(middleware), ...)`
IsArrayChecked(v) == IsArray(v)

\* Variant: only the first element is looked at.
ElementsValidFirst(b) == b = << >> \/ Callable(b[1])

\* compose: `middleware.every(fn => typeof fn === 'function')`
ElementsValid(b) == \A j \in 1..Len(b) : Callable(b[j])

\* compose(middleware): throws when its argument is not an array of
\* functions, else returns the composed middleware.
Compose ==
  /\ composed = "no"
  /\ IF ~IsArrayChecked(args.stack)
     THEN /\ composed' = "failed"
          /\ thrown' = Append(thrown, InvariantError("array"))
     ELSE IF ~ElementsValid(brigade)
     THEN /\ composed' = "failed"
          /\ thrown' = Append(thrown, InvariantError("functions"))
     ELSE /\ composed' = "yes"
          /\ thrown' = thrown
  /\ UNCHANGED << inputs, toInvoke, hasTerminated, result, acts, stack, proms, events,
                  final, parent, outerArgs >>

\* Variant: only next is tested.
ContinuationsValidNextOnly(a) == Callable(a.next)

\* composedMiddleware: `invariant(typeof next === 'function', ...)` and
\* `invariant(typeof skipNext === 'function', ...)`
ContinuationsValid(a) == Callable(a.next) /\ Callable(a.skipNext)

\* composedMiddleware(request, next, skipNext)
ComposedMiddleware ==
  /\ entry = "composed"
  /\ composed = "yes"
  /\ stack = << >>
  /\ toInvoke > 0
  /\ toInvoke' = toInvoke - 1
  /\ IF ContinuationsValid(args)
     THEN /\ Dispatch(Len(hasTerminated) + 1, 0, 0, -1, Append(hasTerminated, FreshFlag),
                      Append(parent, ByCaller(RequestOfCall(Len(hasTerminated) + 1), NextUnit)),
                      Append(result, 0), events, MiddlewareArgs)
          /\ thrown' = thrown
     ELSE /\ thrown' = Append(thrown, InvariantError(IF Callable(args.next)
                                                     THEN "skipNext" ELSE "next"))
          /\ UNCHANGED << hasTerminated, result, acts, stack, proms, events, parent,
                          outerArgs >>
  /\ UNCHANGED << inputs, final, composed >>

\* The checks callMiddleware makes of its arguments, in either version.
CallMiddlewareError ==
  IF version = "index.js" THEN CallMiddlewareNoChecks(args, response)
  ELSE CallMiddlewareChecks(args, response)

\* callMiddleware(middleware, request, response): calls the composed
\* middleware with terminate for both continuations and returns the promise
\* then() makes.
CallMiddleware ==
  /\ entry = "callMiddleware"
  /\ composed = "yes"
  /\ stack = << >>
  /\ toInvoke > 0
  /\ toInvoke' = toInvoke - 1
  /\ IF CallMiddlewareError = NoErr
     THEN /\ Dispatch(Len(hasTerminated) + 1, 0, 0, -1, Append(hasTerminated, FreshFlag),
                      Append(parent, ByCaller(RequestOfCall(Len(hasTerminated) + 1), NextUnit)),
                      Append(result, 0), events, MiddlewareArgs)
          /\ final' = [ k \in 1..(Len(hasTerminated) + 1) |->
                          IF k <= Len(final) THEN final[k]
                          ELSE IF k = Len(hasTerminated) + 1 THEN Pending("then")
                          ELSE NoPromise ]
          /\ thrown' = thrown
     ELSE /\ thrown' = Append(thrown, CallMiddlewareError)
          /\ UNCHANGED << hasTerminated, result, acts, stack, proms, events, parent,
                          outerArgs, final >>
  /\ UNCHANGED << inputs, composed >>

\* callMiddleware: the promise of the composed middleware has settled and
\* the callback given to then() runs; a rejection passes through.
CallMiddlewareThen(inv) ==
  /\ stack = << >>
  /\ final[inv].st = "pending"
  /\ result[inv] > 0
  /\ LET r == Eff(proms, result[inv])
     IN /\ r.st # "pending"
        /\ final' = [final EXCEPT ![inv] =
                       IF r.st = "rejected" THEN ThenRejected(r.err)
                       ELSE IF version = "index.js" THEN ThenResult(response, r.val)
                       ELSE ThenResultOrUndefined(response, r.val)]
  /\ UNCHANGED << inputs, callerState, hasTerminated, result, acts, stack, proms, events,
                  parent, outerArgs >>

\* A middleware calls its next: dispatchNext
DispatchNext ==
  /\ Running
  /\ CurOp \in { "next", "nextA" }
  /\ LET me == acts[Top]
     IN Dispatch(me.inv, NextIndex(me.pos), Top, -1, hasTerminated, parent, result,
                 Append(events, Ev("callNext", me.inv, me.pos)), CallArgs(CurOp))
  /\ UNCHANGED << inputs, callerState, final >>

(***************************************************************************)
(* dispatchSkipNext of position pos of invocation inv, reached from        *)
(* activation a.  The skipNext of a nested composed middleware is the      *)
(* dispatchSkipNext of its position in the enclosing brigade.  No try      *)
(* block encloses these calls: what they throw is thrown in activation a.  *)
(***************************************************************************)
RECURSIVE SkipFrom(_, _, _, _, _, _)
SkipFrom(inv, pos, a, H, ev, given) ==
  LET b == BrigadeIn(parent, inv)
      fresh == Len(proms) + 1
  IN IF TerminatedOnSkip(H, inv)
     THEN /\ Raise(a, LocatedError(b, SkipViolationPos(pos), "terminated", "skipNext"),
                   Append(ev, Ev("violationSkip", inv, SkipViolationPos(pos))), H, result)
          /\ outerArgs' = outerArgs
     ELSE LET H2 == MarkTerminatedOnSkip(H, inv)
              ev2 == Append(ev, Ev("outerSkip", inv, pos))
          IN IF parent[inv].inv # 0
             THEN SkipFrom(parent[inv].inv, parent[inv].pos, a, H2,
                           Append(ev2, Ev("callSkip", parent[inv].inv, parent[inv].pos)),
                           OuterCallArgs(given))
             ELSE \E kind \in OuterKindsOf("skipNext") :
                  /\ outerArgs' = Append(outerArgs,
                                         [op |-> "skipNext", args |-> OuterCallArgs(given),
                                          inv |-> inv, kind |-> kind,
                                          prom |-> IF kind \in { "resolved", "pending" }
                                                   THEN fresh ELSE 0])
                  /\ CASE kind = "throw" ->
                              Raise(a, Thrown(-1, "skipNext"),
                                    Append(ev2, Ev("skipThrew", inv, pos)), H2, result)
                         [] kind = "plain" ->
                              /\ acts' = [acts EXCEPT ![a].rp = 0, ![a].rv = "plain", ![a].pc = @ + 1]
                              /\ proms' = proms
                              /\ hasTerminated' = H2 /\ events' = ev2
                              /\ UNCHANGED << stack, result >>
                         [] OTHER ->
                              /\ acts' = [acts EXCEPT ![a].rp = fresh, ![a].rv = NoVal, ![a].pc = @ + 1]
                              /\ proms' = Append(proms,
                                            IF kind = "resolved"
                                            THEN Resolved(OuterValue("skipNext"), "skipNext")
                                            ELSE Pending("skipNext"))
                              /\ hasTerminated' = H2 /\ events' = ev2
                              /\ UNCHANGED << stack, result >>

\* A middleware calls its skipNext: dispatchSkipNext
DispatchSkipNext ==
  /\ Running
  /\ CurOp \in { "skip", "skipA" }
  /\ SkipFrom(acts[Top].inv, acts[Top].pos, Top, hasTerminated,
              Append(events, Ev("callSkip", acts[Top].inv, acts[Top].pos)), CallArgs(CurOp))
  /\ UNCHANGED << inputs, callerState, final, parent >>

\* An async middleware reaches an await: it suspends.
Suspend ==
  /\ Running
  /\ CurOp \in { "tick", "awaitR" }
  /\ Finish(Top, IF CurOp = "tick" THEN "tick" ELSE "await", proms,
            acts[Top].prom, events, hasTerminated, result)
  /\ UNCHANGED << inputs, callerState, final, parent, outerArgs >>

\* A middleware returns.
Return ==
  /\ Running
  /\ CurOp \in { "retR", "retOwn", "retU" }
  /\ LET a == Top
         me == acts[a]
     IN CASE CurOp = "retR" ->
               IF me.rp # 0
               THEN MwOutcome(a, "promise", me.rp, NoVal, NoErr, events, hasTerminated, result)
               ELSE MwOutcome(a, "plain", 0, me.rv, NoErr, events, hasTerminated, result)
          [] CurOp = "retOwn" ->
               MwOutcome(a, "plain", 0, OwnValue(MwOf(a)), NoErr, events, hasTerminated, result)
          [] CurOp = "retU" ->
               MwOutcome(a, "plain", 0, "undefined", NoErr, events, hasTerminated, result)
  /\ UNCHANGED << inputs, callerState, final, parent, outerArgs >>

\* A middleware throws.
Throw ==
  /\ Running
  /\ CurOp = "throw"
  /\ Raise(Top, Thrown(acts[Top].pos, "mw"),
           Append(events, Ev("mwThrew", acts[Top].inv, acts[Top].pos)), hasTerminated,
           result)
  /\ UNCHANGED << inputs, callerState, final, parent, outerArgs >>

\* The event loop resumes a suspended async middleware.
Resume(a) ==
  /\ stack = << >>
  /\ LET me == acts[a]
     IN \/ /\ me.st = "tick"
           /\ acts' = [acts EXCEPT ![a].st = "run", ![a].pc = @ + 1]
           /\ stack' = << a >>
           /\ UNCHANGED << proms, events >>
        \/ /\ me.st = "await"
           /\ me.rp = 0
           /\ acts' = [acts EXCEPT ![a].st = "run", ![a].pc = @ + 1]
           /\ stack' = << a >>
           /\ events' = Append(events, Ev("after", me.inv, me.pos))
           /\ UNCHANGED proms
        \/ /\ me.st = "await"
           /\ me.rp # 0
           /\ Eff(proms, me.rp).st = "resolved"
           /\ acts' = [acts EXCEPT ![a].st = "run", ![a].pc = @ + 1,
                                   ![a].rp = 0, ![a].rv = Eff(proms, me.rp).val]
           /\ stack' = << a >>
           /\ events' = Append(events, Ev("after", me.inv, me.pos))
           /\ UNCHANGED proms
        \/ /\ me.st = "await"
           /\ me.rp # 0
           /\ Eff(proms, me.rp).st = "rejected"
           /\ acts' = [acts EXCEPT ![a].st = "done"]
           /\ proms' = [proms EXCEPT ![me.prom] = Rejected(Eff(proms, me.rp).err, "mw")]
           /\ UNCHANGED << stack, events >>
  /\ UNCHANGED << inputs, callerState, hasTerminated, result, final, parent, outerArgs >>

\* A pending promise returned by an outer continuation settles.
SettleOuter(p) ==
  /\ stack = << >>
  /\ proms[p].st = "pending"
  /\ proms[p].src \in { "next", "skipNext" }
  /\ \E ok \in BOOLEAN :
       proms' = [proms EXCEPT ![p] =
                   IF ok THEN Resolved(OuterValue(proms[p].src), proms[p].src)
                   ELSE Rejected(Thrown(-1, proms[p].src), proms[p].src)]
  /\ UNCHANGED << inputs, callerState, hasTerminated, result, acts, stack, events, final,
                  parent, outerArgs >>

Next ==
  \/ Compose
  \/ ComposedMiddleware
  \/ CallMiddleware
  \/ \E inv \in 1..Len(final) : CallMiddlewareThen(inv)
  \/ DispatchNext
  \/ DispatchSkipNext
  \/ Suspend
  \/ Return
  \/ Throw
  \/ \E a \in 1..Len(acts) : Resume(a)
  \/ \E p \in 1..Len(proms) : SettleOuter(p)

Spec == Init /\ [][Next]_vars

\* Largest brigade that is invoked twice.
MaxLenTwice == 2

\* The middleware of the brigades that are invoked twice.
TwiceScripts == { "Fwd", "LateNext", "LateSkip", "SkipSkip", "Throw" }

\* The caller invokes the composed middleware twice; the second call may be
\* made while the first is suspended.
InitTwice ==
  /\ brigade \in UNION { [1..n -> TwiceScripts] : n \in 0..MaxLenTwice }
  /\ plain = "zero"
  /\ entry \in { "composed", "callMiddleware" }
  /\ response \in Responses
  /\ inner = << >>
  /\ anonymous = { }
  /\ args = ValidArgs
  /\ version = "index.js"
  /\ composed = "no"
  /\ thrown = << >>
  /\ outerArgs = << >>
  /\ units = << "brigade", "brigade" >>
  /\ toInvoke = 2
  /\ final = << >>
  /\ parent = << >>
  /\ hasTerminated = << >>
  /\ result = << >>
  /\ acts = << >>
  /\ stack = << >>
  /\ proms = << >>
  /\ events = << >>

SpecTwice == InitTwice /\ [][Next]_vars

\* Largest brigade that holds a composed middleware, and largest brigade
\* that composed middleware is composed from.
MaxLenOuter == 3
MaxLenInner == 2

\* The middleware of the enclosing brigade and of the nested one; each calls
\* at most one continuation.
OuterScripts == { "Nested", "Fwd", "LateSkip", "Throw" }
InnerScripts == { "Fwd", "SyncNext", "LateSkip", "Throw" }

\* compose(inner) is a middleware of the brigade.
InitNested ==
  /\ brigade \in UNION { [1..n -> OuterScripts] : n \in 1..MaxLenOuter }
  /\ \E j \in 1..Len(brigade) : brigade[j] = "Nested"
  /\ inner \in UNION { [1..n -> InnerScripts] : n \in 0..MaxLenInner }
  /\ plain = "zero"
  /\ entry \in { "composed", "callMiddleware" }
  /\ response \in Responses
  /\ anonymous = { }
  /\ args = ValidArgs
  /\ version = "index.js"
  /\ composed = "no"
  /\ thrown = << >>
  /\ outerArgs = << >>
  /\ units = << "brigade" >>
  /\ toInvoke = 1
  /\ final = << >>
  /\ parent = << >>
  /\ hasTerminated = << >>
  /\ result = << >>
  /\ acts = << >>
  /\ stack = << >>
  /\ proms = << >>
  /\ events = << >>

SpecNested == InitNested /\ [][Next]_vars

(***************************************************************************)
(* The caller's arguments: what is given to compose, to the composed       *)
(* middleware and to callMiddleware need not be what they expect.          *)
(* callMiddleware is taken in both versions the repository holds.          *)
(***************************************************************************)
MaxLenArgs == 2

ArgScripts ==
  { "Fwd", "LateSkip", "Throw", "Own", "Drop", "FwdArgs", "SkipArgs", "NotAFunction" }

\* Values given where a function is expected.
FunctionArgs == { "function", "object" }

\* Values given as request, and as response ("undefined": none is given).
RequestArgs == { "object", "null", "zero" }
ResponseArgs == { "resp", "undefined", "null", "zero" }

\* The middleware that are given as functions without a name, when any are.
AnonymousArgs == { "SkipArgs", "Fwd" }

InitArgs ==
  /\ entry \in { "composed", "callMiddleware" }
  /\ args \in [stack : { "array", "null" },
               next : IF entry = "composed" THEN FunctionArgs ELSE { "function" },
               skipNext : IF entry = "composed" THEN FunctionArgs ELSE { "function" },
               middleware : IF entry = "composed" THEN { "function" } ELSE FunctionArgs,
               request : IF entry = "composed" THEN { "object" } ELSE RequestArgs]
  /\ brigade \in IF IsArray(args.stack)
                 THEN UNION { [1..n -> ArgScripts] : n \in 0..MaxLenArgs }
                 ELSE { << >> }
  /\ response \in IF entry = "composed" THEN Responses ELSE ResponseArgs
  /\ version \in IF entry = "composed" THEN { "index.js" } ELSE { "index.js", "part_002" }
  /\ anonymous \in IF entry = "composed" THEN { { }, AnonymousArgs } ELSE { { } }
  /\ plain = "zero"
  /\ inner = << >>
  /\ units = << "brigade" >>
  /\ toInvoke = 1
  /\ NothingCalled

SpecArgs == InitArgs /\ [][Next]_vars

(***************************************************************************)
(* A brigade with a nested composed middleware and the flat brigade of the  *)
(* same middleware: the caller calls compose(brigade) and then the          *)
(* composition of the flattened brigade.                                   *)
(***************************************************************************)
MaxLenFlatOuter == 3
MaxLenFlatInner == 2

FlatOuterScripts == { "Nested", "Fwd", "LateSkip", "Throw" }
FlatInnerScripts == { "Fwd", "SyncSkip" }

\* The position (0-based) of the one nested composed middleware.
NestedAt == CHOOSE q \in 0..(Len(brigade) - 1) : brigade[q + 1] = "Nested"

InitFlat ==
  /\ brigade \in UNION { [1..n -> FlatOuterScripts] : n \in 1..MaxLenFlatOuter }
  /\ Cardinality({ j \in 1..Len(brigade) : brigade[j] = "Nested" }) = 1
  /\ inner \in UNION { [1..n -> FlatInnerScripts] : n \in 0..MaxLenFlatInner }
  /\ plain = "zero"
  /\ entry \in { "composed", "callMiddleware" }
  /\ response \in Responses
  /\ anonymous = { }
  /\ args = ValidArgs
  /\ version = "index.js"
  /\ units = << "brigade", "flat" >>
  /\ toInvoke = 2
  /\ NothingCalled

SpecFlat == InitFlat /\ [][Next]_vars

(***************************************************************************)
(* Progress.  A turn of JavaScript runs to completion, the event loop runs  *)
(* every continuation that is ready, and a promise that is settled has its  *)
(* then() callback called; the promise an outer continuation returned is    *)
(* taken to settle.  The caller is under no obligation to call anything.    *)
(***************************************************************************)
MaxLenLive == 3

LiveScripts == { "Fwd", "SyncNext", "LateNext", "SyncSkip", "LateSkip", "Throw" }

InitLive ==
  /\ brigade \in UNION { [1..n -> LiveScripts] : n \in 0..MaxLenLive }
  /\ plain = "zero"
  /\ entry \in { "composed", "callMiddleware" }
  /\ response \in Responses
  /\ inner = << >>
  /\ anonymous = { }
  /\ args = ValidArgs
  /\ version = "index.js"
  /\ units = << "brigade" >>
  /\ toInvoke = 1
  /\ NothingCalled

Fairness ==
  /\ WF_vars(DispatchNext)
  /\ WF_vars(DispatchSkipNext)
  /\ WF_vars(Suspend)
  /\ WF_vars(Return)
  /\ WF_vars(Throw)
  /\ WF_vars(\E a \in 1..Len(acts) : Resume(a))
  /\ WF_vars(\E inv \in 1..Len(final) : CallMiddlewareThen(inv))
  /\ WF_vars(\E p \in 1..Len(proms) : SettleOuter(p))

SpecLive == InitLive /\ [][Next]_vars /\ Fairness

TypeOK ==
  /\ Len(brigade) <= MaxLen
  /\ Len(hasTerminated) = Len(result)
  /\ Len(hasTerminated) = Len(parent)
  /\ \A a \in 1..Len(acts) : acts[a].st \in { "run", "tick", "await", "done" }


(***************************************************************************)
(* Observations used by the properties.                                    *)
(***************************************************************************)
\* Number of logged events of kind e in invocation inv.
Count(e, inv) ==
  Cardinality({ k \in 1..Len(events) : events[k].e = e /\ events[k].inv = inv })

\* Continuation calls (next or skipNext) made by the middleware at pos.
CallsBy(inv, pos) ==
  Cardinality({ k \in 1..Len(events) :
                  /\ events[k].e \in { "callNext", "callSkip" }
                  /\ events[k].inv = inv
                  /\ events[k].pos = pos })

\* The composed middleware of invocation inv has returned a promise.
Returned(inv) == inv <= Len(result) /\ result[inv] > 0

\* The state of that promise.
Outcome(inv) == Eff(proms, result[inv])

\* Nothing is running and no middleware is suspended.
Quiescent == stack = << >> /\ \A a \in 1..Len(acts) : acts[a].st = "done"

\* Middleware that call next once and return what it gave them.
Forwarders == { "Fwd", "SyncNext", "LateNext" }

\* Middleware that call one continuation once and return what it gave them.
Abiding == Forwarders \cup { "SyncSkip", "LateSkip" }

\* The protocol-violation errors of dispatch and dispatchSkipNext.
NextViolation(i) == LocatedError(brigade, i, "terminated", "next")
SkipViolation(i) == LocatedError(brigade, i, "terminated", "skipNext")

\* The events of the log with a kind in K, in order.
RECURSIVE Only(_, _)
Only(K, log) ==
  IF log = << >> THEN << >>
  ELSE IF Head(log).e \in K THEN << Head(log) >> \o Only(K, Tail(log))
  ELSE Only(K, Tail(log))

IsPrefix(u, w) == Len(u) <= Len(w) /\ u = SubSeq(w, 1, Len(u))

\* C1: in one invocation the outer next and skipNext are invoked at most
\* once in total, whatever the middleware do.
C1_OuterAtMostOnce ==
  \A inv \in 1..Len(hasTerminated) :
    Count("outerNext", inv) + Count("outerSkip", inv) <= 1

\* An outer continuation was invoked and a later continuation call was refused.
C1_Witness ==
  /\ Count("outerNext", 1) + Count("outerSkip", 1) = 1
  /\ Count("violationNext", 1) + Count("violationSkip", 1) >= 1

\* C2: a first middleware calling next twice in one synchronous turn, in a
\* brigade of two or more whose other middleware abide by the protocol, makes
\* the composed middleware reject with the violation naming position 0.
C2_DoubleAdvanceRejects ==
  ( /\ Len(brigade) >= 2
    /\ brigade[1] = "NextNext"
    /\ \A j \in 2..Len(brigade) : brigade[j] \in Abiding
    /\ Returned(1)
    /\ Outcome(1).st # "pending" )
  => ( Outcome(1).st = "rejected" /\ Outcome(1).err = NextViolation(0) )

\* C3: a middleware calling next and then skipNext makes the composed
\* middleware reject with the skipNext violation naming that middleware, for
\* every brigade length and timing of the middleware downstream.
C3_AdvanceThenShortcutRejects ==
  \A i \in 0..(Len(brigade) - 1) :
    ( /\ brigade[i + 1] = "NextSkip"
      /\ \A j \in 1..i : brigade[j] \in Forwarders
      /\ \A j \in (i + 2)..Len(brigade) : brigade[j] \in Abiding
      /\ Returned(1)
      /\ Outcome(1).st # "pending" )
    => ( Outcome(1).st = "rejected" /\ Outcome(1).err = SkipViolation(i) )

\* C4: every protocol-violation error names a middleware that itself made
\* more than one continuation call in that invocation.
C4_ViolationNamesOffender ==
  \A k \in 1..Len(events) :
    events[k].e \in { "violationNext", "violationSkip" }
    => CallsBy(events[k].inv, events[k].pos) > 1

\* C5: once the flag of an invocation is true, a call of next or skipNext
\* from any position fails with a protocol violation and invokes neither a
\* middleware nor an outer continuation.
C5_CallAfterTerminationRefused ==
  [][ ( /\ Len(events') > Len(events)
        /\ events'[Len(events) + 1].e \in { "callNext", "callSkip" }
        /\ hasTerminated[events'[Len(events) + 1].inv] )
      => ( /\ Len(events') = Len(events) + 2
           /\ events'[Len(events) + 2].e \in { "violationNext", "violationSkip" }
           /\ Len(acts') = Len(acts)
           /\ acts'[Top].st = "done"
           /\ hasTerminated' = hasTerminated ) ]_vars

\* A continuation call was refused while the flag was true.
C5_Witness ==
  /\ Len(hasTerminated) = 1
  /\ hasTerminated[1]
  /\ Count("violationNext", 1) >= 1
  /\ Count("violationSkip", 1) >= 1

\* C6: the flag of an invocation starts false, and once true it stays true.
C6_FlagMonotonic ==
  [][ /\ \A inv \in 1..Len(hasTerminated) :
           /\ inv <= Len(hasTerminated')
           /\ hasTerminated[inv] => hasTerminated'[inv]
      /\ ( Len(hasTerminated') > Len(hasTerminated) /\ Len(brigade) > 0 )
           => ~hasTerminated'[Len(hasTerminated')] ]_vars

\* The flag has become true after middleware ran with it false.
C6_Witness ==
  /\ Len(hasTerminated) = 1
  /\ hasTerminated[1]
  /\ Count("enter", 1) >= 2
  /\ Quiescent

\* The order C7 states for a brigade of n middleware.
ExpectedOrder(n) ==
  [ k \in 1..(2 * n + 1) |->
      IF k <= n THEN Ev("enter", 1, k - 1)
      ELSE IF k = n + 1 THEN Ev("outerNext", 1, n)
      ELSE Ev("after", 1, 2 * n + 1 - k) ]

\* C7: N middleware that each await next and then return its result run in
\* the order before(0..N-1), the outer next, after(N-1..0).
C7_NestedOrder ==
  ( \A j \in 1..Len(brigade) : brigade[j] = "Fwd" )
  => IsPrefix(Only({ "enter", "outerNext", "outerSkip", "after" }, events),
              ExpectedOrder(Len(brigade)))

\* Three such middleware have run to the end of the order.
C7_Witness ==
  /\ brigade = << "Fwd", "Fwd", "Fwd" >>
  /\ Only({ "enter", "outerNext", "outerSkip", "after" }, events) = ExpectedOrder(3)
  /\ Quiescent

\* C8: when every middleware calls next once and returns what it obtained,
\* the composed middleware resolves to the value the outer next resolved to
\* and the outer skipNext is never invoked.
C8_AdvanceValuePropagates ==
  ( \A j \in 1..Len(brigade) : brigade[j] \in Forwarders )
  => /\ Count("outerSkip", 1) = 0
     /\ Returned(1) =>
          /\ Outcome(1).st = "resolved" =>
               \E p \in 1..Len(proms) :
                 /\ proms[p].src = "next"
                 /\ proms[p].st = "resolved"
                 /\ Outcome(1).val = proms[p].val
          /\ \A p \in 1..Len(proms) :
               ( Quiescent /\ proms[p].src = "next" /\ proms[p].st = "resolved" )
               => ( Outcome(1).st = "resolved" /\ Outcome(1).val = proms[p].val )

\* A brigade of three forwarding middleware has resolved.
C8_Witness ==
  /\ Len(brigade) = 3
  /\ \A j \in 1..3 : brigade[j] \in Forwarders
  /\ brigade[2] = "LateNext"
  /\ Returned(1)
  /\ Outcome(1).st = "resolved"
  /\ Outcome(1).val = OuterValue("next")

\* The first position whose middleware is not a forwarder (0-based).
FirstNonForwarder ==
  CHOOSE i \in 0..Len(brigade) :
    /\ \A j \in 1..i : brigade[j] \in Forwarders
    /\ ( i < Len(brigade) => brigade[i + 1] \notin Forwarders )

\* C9: when the middleware at position i calls skipNext first and the
\* middleware upstream forward the value, the composed middleware resolves to
\* the value the outer skipNext resolved to, no position beyond i is invoked
\* and the outer next is never invoked.
C9_ShortcutShortCircuits ==
  LET i == FirstNonForwarder
  IN ( i < Len(brigade) /\ brigade[i + 1] \in { "SyncSkip", "LateSkip" } )
     => /\ Count("outerNext", 1) = 0
        /\ \A k \in 1..Len(events) : events[k].e = "enter" => events[k].pos <= i
        /\ Returned(1) =>
             \A p \in 1..Len(proms) :
               proms[p].src = "skipNext" =>
                 /\ Outcome(1).st = "resolved" =>
                      ( proms[p].st = "resolved" /\ Outcome(1).val = proms[p].val )
                 /\ ( Quiescent /\ proms[p].st = "resolved" )
                      => ( Outcome(1).st = "resolved" /\ Outcome(1).val = proms[p].val )

\* A shortcut from the middle of a brigade has resolved.
C9_Witness ==
  /\ Len(brigade) = 3
  /\ brigade[1] \in Forwarders
  /\ brigade[2] \in { "SyncSkip", "LateSkip" }
  /\ Count("outerSkip", 1) = 1
  /\ Returned(1)
  /\ Outcome(1).st = "resolved"
  /\ Outcome(1).val = OuterValue("skipNext")

CountIn(log, e, inv) ==
  Cardinality({ k \in 1..Len(log) : log[k].e = e /\ log[k].inv = inv })

\* The promise an activation hands to its caller when it fails: its own
\* promise when it is an async function, else the one dispatch creates.
FailurePromise(a, ps) ==
  IF IsAsync(brigade[acts[a].pos + 1]) THEN ps[acts[a].prom] ELSE ps[Len(ps)]

\* C11: a middleware at position i that called skipNext and afterwards calls
\* next gets the next-violation naming position i; position i + 1 is not
\* invoked and the outer next is not invoked.
C11_AdvanceAfterShortcutRefused ==
  [][ ( /\ Running
        /\ brigade[acts[Top].pos + 1] = "SkipNext"
        /\ CurOp = "next" )
      => LET me == acts[Top]
         IN /\ events' = events \o << Ev("callNext", me.inv, me.pos),
                                      Ev("violationNext", me.inv, me.pos) >>
            /\ FailurePromise(Top, proms').st = "rejected"
            /\ FailurePromise(Top, proms').err = NextViolation(me.pos)
            /\ Len(acts') = Len(acts)
            /\ acts'[Top].st = "done"
            /\ CountIn(events', "outerNext", me.inv) = 0 ]_vars

\* The middleware in the middle of a brigade called skipNext, then next.
C11_Witness ==
  /\ Len(brigade) = 3
  /\ brigade[2] = "SkipNext"
  /\ \E k \in 1..Len(events) :
       /\ events[k] = Ev("violationNext", 1, 1)
       /\ \E j \in 1..(k - 1) : events[j] = Ev("outerSkip", 1, 1)
  /\ Count("enter", 1) = 2

\* C12: a middleware at any position i that calls skipNext twice gets, for
\* the second call, the skipNext-violation naming position i, and the outer
\* skipNext is invoked exactly once.
C12_DoubleShortcutRefused ==
  [][ ( /\ Running
        /\ brigade[acts[Top].pos + 1] = "SkipSkip"
        /\ acts[Top].pc = 2
        /\ CurOp = "skip" )
      => LET me == acts[Top]
         IN /\ events' = events \o << Ev("callSkip", me.inv, me.pos),
                                      Ev("violationSkip", me.inv, me.pos) >>
            /\ FailurePromise(Top, proms').st = "rejected"
            /\ FailurePromise(Top, proms').err = SkipViolation(me.pos)
            /\ Len(acts') = Len(acts)
            /\ CountIn(events', "outerSkip", me.inv) = 1 ]_vars

\* skipNext was called twice by the middleware in the middle of a brigade.
C12_Witness ==
  /\ Len(brigade) = 3
  /\ brigade[2] = "SkipSkip"
  /\ Count("outerSkip", 1) = 1
  /\ \E k \in 1..Len(events) : events[k] = Ev("violationSkip", 1, 1)
  /\ Returned(1)
  /\ Outcome(1).st = "rejected"
  /\ Outcome(1).err = SkipViolation(1)

\* The type error dispatch makes for value v returned at position i.
TypeError(i, v) == LocatedError(brigade, i, "type", TypeOf(v))

\* C13: when the middleware at position i returns a value that is no
\* promise, dispatch of position i returns a promise rejected with a type
\* error naming position i and the type of the value; the value itself is
\* not handed on.
C13_NonPromiseRejected ==
  [][ ( /\ Running
        /\ ~IsAsync(brigade[acts[Top].pos + 1])
        /\ \/ CurOp = "retOwn"
           \/ CurOp = "retR" /\ acts[Top].rp = 0 )
      => LET me == acts[Top]
             v == IF CurOp = "retOwn" THEN plain ELSE me.rv
         IN /\ proms' = Append(proms, Rejected(TypeError(me.pos, v), "dispatch"))
            /\ IF Len(stack) > 1
               THEN /\ acts'[stack[Len(stack) - 1]].rp = Len(proms')
                    /\ acts'[stack[Len(stack) - 1]].rv = NoVal
               ELSE result'[me.inv] = Len(proms') ]_vars

\* The second middleware returned null and the composed middleware rejected
\* with the type error for position 1 and type 'object'.
C13_Witness ==
  /\ brigade = << "SyncNext", "Plain" >>
  /\ plain = "null"
  /\ Returned(1)
  /\ Outcome(1).st = "rejected"
  /\ Outcome(1).err = [k |-> "type", pos |-> 1, op |-> "object", name |-> "Plain"]

\* The errors thrown or rejected so far by a middleware or by an outer
\* continuation: thrown synchronously (logged) or the reason of a rejected
\* promise an outer continuation returned.
FailuresRaised ==
  { Thrown(events[k].pos, "mw") : k \in { n \in 1..Len(events) : events[n].e = "mwThrew" } }
  \cup { Thrown(-1, "next") : k \in { n \in 1..Len(events) : events[n].e = "nextThrew" } }
  \cup { Thrown(-1, "skipNext") : k \in { n \in 1..Len(events) : events[n].e = "skipThrew" } }
  \cup { proms[p].err : p \in { q \in 1..Len(proms) :
                                  /\ proms[q].src \in { "next", "skipNext" }
                                  /\ proms[q].st = "rejected" } }

\* Every middleware upstream of the origin of error e returns the promise of
\* its continuation call.
UpstreamForwards(e) ==
  CASE e.op = "mw"   -> \A q \in 1..e.pos : brigade[q] \in Forwarders
    [] e.op = "next" -> \A q \in 1..Len(brigade) : brigade[q] \in Forwarders
    [] OTHER         -> /\ FirstNonForwarder < Len(brigade)
                        /\ brigade[FirstNonForwarder + 1] \in { "SyncSkip", "LateSkip" }

\* C14: an error thrown or rejected by a middleware, by the outer next or
\* by the outer skipNext is, when the middleware upstream return the promise
\* of their continuation call, the very reason the composed middleware
\* rejects with: once its promise settles it is rejected with that error, and
\* it has done so when nothing is left to run.
C14_ErrorPropagatesUnchanged ==
  \A e \in FailuresRaised :
    UpstreamForwards(e)
      => /\ ( Returned(1) /\ Outcome(1).st # "pending" )
              => ( Outcome(1).st = "rejected" /\ Outcome(1).err = e )
         /\ ( Quiescent /\ Len(result) >= 1 )
              => ( Returned(1) /\ Outcome(1).st = "rejected" )

\* The third middleware threw synchronously below a plain and an async
\* forwarder and the composed middleware rejected with that error.
C14_Witness ==
  /\ brigade = << "Fwd", "SyncNext", "Throw" >>
  /\ Quiescent
  /\ Returned(1)
  /\ Outcome(1).st = "rejected"
  /\ Outcome(1).err = Thrown(2, "mw")

\* C15: whatever the middleware and the outer continuations throw, the
\* composed middleware returns a promise and throws nothing: whenever control
\* is back with the caller the call has returned a promise.  A middleware that
\* throws and one that rejects give the same outcome: the promise rejected
\* with the error.
C15_AlwaysReturnsPromise ==
  /\ ( stack = << >> /\ Len(result) >= 1 ) => Returned(1)
  /\ LET j == FirstNonForwarder
     IN ( /\ j < Len(brigade)
          /\ brigade[j + 1] \in { "Throw", "Reject" }
          /\ Quiescent
          /\ Len(result) >= 1 )
        => ( Outcome(1).st = "rejected" /\ Outcome(1).err = Thrown(j, "mw") )

\* The only middleware threw synchronously, and the caller holds a rejected
\* promise.
C15_Witness ==
  /\ brigade = << "Throw" >>
  /\ stack = << >>
  /\ Count("mwThrew", 1) = 1
  /\ Returned(1)
  /\ Outcome(1) = Rejected(Thrown(0, "mw"), "dispatch")

\* C18: the promise callMiddleware returns either rejects or resolves to
\* the very response it was given; when the brigade resolved to any other
\* value it rejects with the unexpected-response error.
C18_ResponseOrRejection ==
  \A inv \in 1..Len(final) :
    /\ final[inv].st = "resolved" => final[inv].val = response
    /\ ( /\ final[inv].st # "pending"
         /\ Outcome(inv).st = "resolved"
         /\ Outcome(inv).val # response )
       => final[inv] = Rejected(UnexpectedError, "then")

\* The brigade resolved to a value of the middleware's own and
\* callMiddleware rejected.
C18_Witness ==
  /\ entry = "callMiddleware"
  /\ brigade = << "Fwd", "Own" >>
  /\ Len(final) = 1
  /\ Returned(1)
  /\ Outcome(1) = Resolved("own", "mw")
  /\ final[1] = Rejected(UnexpectedError, "then")

\* C19: under callMiddleware, when a middleware resolves without returning
\* the value of its continuation (it called none, or dropped what next gave
\* it) and the middleware upstream forward, the brigade resolves to another
\* value than the response and callMiddleware rejects with the
\* unexpected-response error.
C19_BrokenChainRejected ==
  LET j == FirstNonForwarder
  IN ( /\ entry = "callMiddleware"
       /\ j < Len(brigade)
       /\ brigade[j + 1] \in { "Own", "Drop" }
       /\ Len(final) = 1 )
     => /\ final[1].st # "pending" => final[1] = Rejected(UnexpectedError, "then")
        /\ Quiescent => /\ Returned(1)
                        /\ Outcome(1).st = "resolved"
                        /\ Outcome(1).val # response
                        /\ final[1].st = "pending" => ENABLED CallMiddlewareThen(1)

\* The first middleware called next without returning its promise; the
\* second ran to the end of the brigade, and callMiddleware rejected.
C19_Witness ==
  /\ entry = "callMiddleware"
  /\ brigade = << "Drop", "Fwd" >>
  /\ Quiescent
  /\ Count("outerNext", 1) = 1
  /\ Returned(1)
  /\ Outcome(1) = Resolved("undefined", "mw")
  /\ final = << Rejected(UnexpectedError, "then") >>

\* C20: callMiddleware gives one continuation as next and as skipNext, so
\* both resolve to the response; a brigade of any length whose middleware all
\* call one continuation once and return its value resolves to exactly the
\* response, whether it ran off its end or a middleware called skipNext.
C20_AbidingBrigadeResolvesResponse ==
  ( /\ entry = "callMiddleware"
    /\ \A q \in 1..Len(brigade) : brigade[q] \in Abiding
    /\ Len(final) = 1 )
  => /\ \A p \in 1..Len(proms) :
          proms[p].src \in { "next", "skipNext" }
            => ( proms[p].st = "resolved" /\ proms[p].val = response )
     /\ final[1].st # "pending" => final[1] = Resolved(response, "then")
     /\ Quiescent => /\ Returned(1)
                     /\ Outcome(1).st = "resolved"
                     /\ Outcome(1).val = response
                     /\ final[1].st = "pending" => ENABLED CallMiddlewareThen(1)

\* The middle middleware of three called skipNext and callMiddleware
\* resolved to the response.
C20_Witness ==
  /\ entry = "callMiddleware"
  /\ brigade = << "Fwd", "LateSkip", "Fwd" >>
  /\ Count("outerSkip", 1) = 1
  /\ Count("enter", 1) = 2
  /\ final = << Resolved(response, "then") >>

\* The log of invocation inv alone, written as that of a first invocation.
PerInv(inv) ==
  LET S == SelectSeq(events, LAMBDA x : x.inv = inv)
  IN [ k \in 1..Len(S) |-> Ev(S[k].e, 1, S[k].pos) ]

\* Invocation inv has had a continuation call refused.
Refused(inv) == Count("violationNext", inv) + Count("violationSkip", inv) > 0

\* C16: each invocation has a flag and a cursor of its own.  Its flag is
\* set only when one of its own continuation calls reached an outer
\* continuation, and a call of it is refused only after that; so when every
\* middleware calls one continuation once nothing is refused in either
\* invocation.  Each invocation runs as it does alone: forwarding middleware
\* run in the order before(0..N-1), outer next, after(N-1..0) and resolve to
\* the value of the outer next, and no position is entered twice.
C16_InvocationsIndependent ==
  \A inv \in 1..Len(hasTerminated) :
    /\ hasTerminated[inv] => Count("outerNext", inv) + Count("outerSkip", inv) = 1
    /\ \A k \in 1..Len(events) :
         ( events[k].inv = inv /\ events[k].e \in { "violationNext", "violationSkip" } )
         => \E j \in 1..(k - 1) :
              events[j].inv = inv /\ events[j].e \in { "outerNext", "outerSkip" }
    /\ ( \A q \in 1..Len(brigade) : brigade[q] \in Abiding )
       => /\ ~Refused(inv)
          /\ \A i \in 0..Len(brigade) :
               Cardinality({ k \in 1..Len(events) : events[k] = Ev("enter", inv, i) }) <= 1
    /\ ( \A q \in 1..Len(brigade) : brigade[q] = "Fwd" )
       => IsPrefix(Only({ "enter", "outerNext", "outerSkip", "after" }, PerInv(inv)),
                   ExpectedOrder(Len(brigade)))
    /\ ( /\ \A q \in 1..Len(brigade) : brigade[q] \in Forwarders
         /\ Returned(inv)
         /\ Outcome(inv).st = "resolved" )
       => Outcome(inv).val = OuterValue("next")

\* Two invocations of a brigade of two forwarding middleware were
\* interleaved: the second was entered while the first was suspended, the
\* first reached the outer next while the second was still on its way, and
\* both resolved.
C16_Witness ==
  /\ brigade = << "LateNext", "Fwd" >>
  /\ Len(result) = 2
  /\ \E a, b, c \in 1..Len(events) :
       /\ a < b /\ b < c
       /\ events[a] = Ev("enter", 2, 0)
       /\ events[b] = Ev("outerNext", 1, 2)
       /\ events[c] = Ev("callNext", 2, 0)
  /\ Quiescent
  /\ Returned(1) /\ Outcome(1).st = "resolved"
  /\ Returned(2) /\ Outcome(2).st = "resolved"
  /\ ~Refused(1) /\ ~Refused(2)

\* C17: a composed middleware at position i of a brigade whose middleware
\* each call at most one continuation.  When its own brigade runs off its
\* end it calls the dispatchNext of position i, and the enclosing brigade
\* goes on with position i + 1 (the outer next when i is the last position).
\* When one of its middleware has its skipNext accepted, the dispatchSkipNext
\* of position i is called: the flag of the enclosing invocation is set, the
\* outer skipNext is invoked once, the outer next never, and no position
\* beyond i of the enclosing brigade is invoked.
C17_NestedComposedMiddleware ==
  \A n \in 1..Len(parent) :
    parent[n].inv # 0 =>
      LET o == parent[n].inv
          i == parent[n].pos
      IN \A k \in 1..Len(events) :
           /\ ( events[k].inv = n /\ events[k].e = "outerNext" )
              => /\ k + 2 <= Len(events)
                 /\ events[k + 1] = Ev("callNext", o, i)
                 /\ events[k + 2] = IF i + 1 < Len(brigade)
                                    THEN Ev("enter", o, i + 1)
                                    ELSE Ev("outerNext", o, i + 1)
           /\ ( events[k].inv = n /\ events[k].e = "outerSkip" )
              => /\ hasTerminated[o]
                 /\ k + 2 <= Len(events)
                 /\ events[k + 1] = Ev("callSkip", o, i)
                 /\ events[k + 2] = Ev("outerSkip", o, i)
                 /\ Count("outerSkip", o) = 1
                 /\ Count("outerNext", o) = 0
                 /\ \A j \in 1..Len(events) :
                      ( events[j].inv = o /\ events[j].e = "enter" ) => events[j].pos <= i

\* The second middleware of the composed middleware in the middle of three
\* called skipNext: the brigade resolved to the value of the outer skipNext
\* and its last middleware was never invoked.
C17_Witness ==
  /\ brigade = << "Fwd", "Nested", "Fwd" >>
  /\ inner = << "Fwd", "LateSkip" >>
  /\ Quiescent
  /\ Len(hasTerminated) = 2
  /\ hasTerminated[1]
  /\ \E k \in 1..Len(events) :
       /\ events[k] = Ev("outerSkip", 2, 1)
       /\ events[k + 2] = Ev("outerSkip", 1, 1)
  /\ Returned(1)
  /\ Outcome(1).st = "resolved"
  /\ Outcome(1).val = OuterValue("skipNext")

\* C22: when the promise of the middleware given to callMiddleware rejects,
\* the promise of callMiddleware rejects with the same error; the checks of
\* the resolved value are not made.
C22_RejectionPassesThrough ==
  \A inv \in 1..Len(final) :
    ( /\ final[inv].st \in { "resolved", "rejected" }
      /\ Outcome(inv).st = "rejected" )
    => final[inv] = Rejected(Outcome(inv).err, "then")

\* The second middleware threw and callMiddleware rejected with its error.
C22_Witness ==
  /\ entry = "callMiddleware"
  /\ brigade = << "Fwd", "Throw" >>
  /\ Returned(1)
  /\ Outcome(1).st = "rejected"
  /\ final = << Rejected(Thrown(1, "mw"), "then") >>

\* C28: in one invocation every position of the brigade is entered at most
\* once, and no position has two activations that have not completed.
C28_StrictlySequential ==
  /\ \A k, j \in 1..Len(events) :
       ( /\ events[k].e = "enter"
         /\ events[j].e = "enter"
         /\ events[k].inv = events[j].inv
         /\ events[k].pos = events[j].pos )
       => k = j
  /\ \A a, c \in 1..Len(acts) :
       ( /\ acts[a].inv = acts[c].inv
         /\ acts[a].pos = acts[c].pos
         /\ acts[a].st # "done"
         /\ acts[c].st # "done" )
       => a = c

\* C29: the flag of an invocation is true exactly when one of its outer
\* continuations has been invoked, and from then on no middleware of the
\* brigade is entered in that invocation.
C29_NothingEntersAfterTermination ==
  \A inv \in 1..Len(hasTerminated) :
    /\ hasTerminated[inv] <=> ( Count("outerNext", inv) + Count("outerSkip", inv) >= 1 )
    /\ \A k, j \in 1..Len(events) :
         ( /\ k < j
           /\ events[k].inv = inv
           /\ events[k].e \in { "outerNext", "outerSkip" }
           /\ events[j].inv = inv )
         => events[j].e # "enter"

\* The first middleware had its skipNext accepted and then called next: the
\* call was refused and the second middleware never ran.
C29_Witness ==
  /\ brigade = << "SkipNext", "Fwd" >>
  /\ hasTerminated = << TRUE >>
  /\ Count("outerSkip", 1) = 1
  /\ Count("callNext", 1) = 1
  /\ Count("enter", 1) = 1
  /\ Quiescent

\* C30: a call a middleware makes to its next or skipNext returns to it; no
\* such call ends the middleware with an exception thrown out of the call.
C30_ContinuationsNeverThrow ==
  [][ ( Running /\ CurOp \in { "next", "skip" } )
      => acts'[Top].st = "run" ]_vars

\* C23: every middleware, at every position of the brigade, is given the very
\* request that was passed to the composed middleware in that call.
C23_SameRequestEverywhere ==
  \A a \in 1..Len(acts) : acts[a].req = RequestOfCall(Root(parent, acts[a].inv))

\* The second call has reached its second middleware with its own request.
C23_Witness ==
  /\ Len(brigade) = 2
  /\ \E a \in 1..Len(acts) :
       /\ acts[a].inv = 2
       /\ acts[a].pos = 1
       /\ acts[a].req = << "object", 2 >>
  /\ \E a \in 1..Len(acts) : acts[a].inv = 1 /\ acts[a].req = << "object", 1 >>

\* C24: the outer continuations are always called with no arguments: not with
\* the request, not with the continuations of a position, not with what a
\* middleware passed to its own continuation.
C24_OuterCalledWithoutArguments ==
  \A k \in 1..Len(outerArgs) : outerArgs[k].args = << >>

\* A middleware passed its three arguments to next, and the outer next was
\* called for it.
C24_Witness ==
  /\ entry = "composed"
  /\ brigade = << "SkipArgs", "FwdArgs" >> \/ brigade = << "FwdArgs" >>
  /\ Count("callNext", 1) + Count("callSkip", 1) = 1
  /\ Len(outerArgs) = 1
  /\ outerArgs[1].args = << >>

\* compose was given something that is not an array of functions.
BadBrigade == ~IsArray(args.stack) \/ \E j \in 1..Len(brigade) : ~Callable(brigade[j])

\* C25: compose fails at once, by a throw and not by a rejected promise, when
\* the brigade is not an array or an element of it is not callable; no
\* composed middleware comes out of it, so none is ever called.
C25_ComposeRefusesBadBrigade ==
  BadBrigade =>
    /\ composed # "yes"
    /\ composed = "failed" => Len(thrown) = 1 /\ thrown[1].k = "invariant"
    /\ proms = << >>
    /\ hasTerminated = << >>
    /\ events = << >>
    /\ final = << >>

\* compose was called with a function followed by something else.
C25_Witness ==
  /\ brigade = << "Fwd", "NotAFunction" >>
  /\ composed = "failed"
  /\ thrown = << InvariantError("functions") >>
  /\ proms = << >>

\* The composed middleware is called with a continuation that is not callable.
BadContinuation == entry = "composed" /\ ~( Callable(args.next) /\ Callable(args.skipNext) )

\* C26: called with a next or skipNext that is not callable, the composed
\* middleware fails at once: the call throws, no middleware of the brigade has
\* run and neither outer continuation has been called.
C26_BadContinuationRefused ==
  BadContinuation =>
    /\ acts = << >>
    /\ events = << >>
    /\ outerArgs = << >>
    /\ hasTerminated = << >>
    /\ proms = << >>
    /\ ( composed = "yes" /\ toInvoke = 0 ) => Len(thrown) = 1 /\ thrown[1].k = "invariant"

\* A brigade of one middleware was composed and called with an object as
\* skipNext.
C26_Witness ==
  /\ entry = "composed"
  /\ brigade = << "LateSkip" >>
  /\ args.next = "function"
  /\ args.skipNext = "object"
  /\ composed = "yes"
  /\ toInvoke = 0
  /\ thrown = << InvariantError("skipNext") >>
  /\ events = << >>

\* callMiddleware has been called.
CallMiddlewareCalled == entry = "callMiddleware" /\ composed = "yes" /\ toInvoke = 0

\* The arguments of callMiddleware are what it is documented to accept.
GoodCallArguments ==
  /\ Callable(args.middleware)
  /\ IsNonNullObject(args.request)
  /\ response = "undefined" \/ IsNonNullObject(response)

\* C27: callMiddleware throws, before it calls the middleware, when the
\* middleware is not callable, the request is not a non-null object, or a
\* response is given that is not a non-null object; without a response it
\* goes ahead.
C27_CallMiddlewareValidates ==
  CallMiddlewareCalled =>
    IF GoodCallArguments
    THEN thrown = << >> /\ Len(final) = 1
    ELSE Len(thrown) = 1 /\ events = << >> /\ acts = << >> /\ final = << >>

\* C21: when callMiddleware is given no response, a middleware that resolves
\* to undefined makes it reject with the error for an undefined result, and
\* one that resolves to anything else makes it resolve to that value.
C21_WithoutResponse ==
  ( /\ entry = "callMiddleware"
    /\ response = "undefined"
    /\ Len(final) = 1
    /\ final[1].st \in { "resolved", "rejected" }
    /\ Outcome(1).st = "resolved" )
  => final[1] = IF Outcome(1).val = "undefined"
                THEN Rejected(UndefinedResultError, "then")
                ELSE Resolved(Outcome(1).val, "then")

\* The type errors that have been raised: the reasons of the promises dispatch
\* rejected for a value that is no promise.
TypeErrorsRaised ==
  { proms[p].err : p \in { q \in 1..Len(proms) :
                             proms[q].st = "rejected" /\ proms[q].err.k = "type" } }

\* C31: every type error for a value that is no promise names a position that
\* is an index of the brigade, 0 to N-1, also when the value was returned by
\* the outer next at the end of the brigade or of an empty brigade.
C31_TypeErrorAtValidIndex ==
  \A e \in TypeErrorsRaised : e.pos \in 0..(Len(brigade) - 1)

\* The protocol-violation errors that have reached a promise.
ViolationErrorsRaised ==
  { proms[p].err : p \in { q \in 1..Len(proms) :
                             proms[q].st = "rejected" /\ proms[q].err.k = "terminated" } }

\* C32: a protocol-violation error carries the position of the middleware
\* whose continuation was just called: dispatch entered at i for a call of
\* next reports i - 1, dispatchSkipNext of position i reports i, and the
\* position is always one of 0..N-1, with the name of that middleware.
C32_ViolationNamesTheCaller ==
  /\ \A k \in 1..Len(events) :
       events[k].e \in { "violationNext", "violationSkip" } =>
         /\ events[k].pos \in 0..(Len(brigade) - 1)
         /\ k > 1
         /\ events[k - 1] = Ev(IF events[k].e = "violationNext" THEN "callNext" ELSE "callSkip",
                               events[k].inv, events[k].pos)
  /\ \A e \in ViolationErrorsRaised :
       /\ e.pos \in 0..(Len(brigade) - 1)
       /\ e.name = brigade[e.pos + 1]
       /\ \E k \in 1..Len(events) :
            /\ events[k].pos = e.pos
            /\ events[k].e = IF e.op = "next" THEN "violationNext" ELSE "violationSkip"

\* Both kinds of violation have happened, the one of next at the last
\* position of the brigade.
C32_Witness ==
  /\ brigade = << "SkipSkip", "Fwd" >> \/ brigade = << "Fwd", "SkipNext" >>
  /\ \E e \in ViolationErrorsRaised :
       e.pos = IF brigade[1] = "SkipSkip" THEN 0 ELSE 1
  /\ Quiescent

\* The continuation calls a middleware makes.
ContinuationOps == { "next", "skip", "nextA", "skipA" }

\* Outer continuations called so far in invocation inv, in log.
OuterCalls(log, inv) == CountIn(log, "outerNext", inv) + CountIn(log, "outerSkip", inv)

\* C33: the flag of an invocation is set by the step that calls its outer
\* next or skipNext and is never cleared, whatever the outer continuation
\* does; from then on a continuation call of a middleware is refused as a
\* violation: it enters no middleware and calls no outer continuation again.
C33_FlagSetBeforeOuterRuns ==
  [][ /\ \A inv \in 1..Len(hasTerminated') :
           /\ OuterCalls(events', inv) > OuterCalls(events, inv) => hasTerminated'[inv]
           /\ ( inv <= Len(hasTerminated) /\ hasTerminated[inv] ) => hasTerminated'[inv]
      /\ ( /\ Running
           /\ CurOp \in ContinuationOps
           /\ hasTerminated[acts[Top].inv] )
         => /\ CountIn(events', "violationNext", acts[Top].inv)
                 + CountIn(events', "violationSkip", acts[Top].inv)
               = CountIn(events, "violationNext", acts[Top].inv)
                 + CountIn(events, "violationSkip", acts[Top].inv) + 1
            /\ OuterCalls(events', acts[Top].inv) = OuterCalls(events, acts[Top].inv)
            /\ CountIn(events', "enter", acts[Top].inv) = CountIn(events, "enter", acts[Top].inv)
    ]_vars

\* The outer skipNext threw, and a call of next made after that was refused.
C33_Witness ==
  /\ brigade = << "NextNext", "SyncSkip" >>
  /\ hasTerminated = << TRUE >>
  /\ Count("skipThrew", 1) = 1
  /\ Count("outerSkip", 1) = 1
  /\ Count("outerNext", 1) = 0
  /\ Count("violationNext", 1) = 1

\* C34: when the middleware at position i resolves to a value of its own
\* without calling a continuation and the middleware upstream forward it, the
\* composed middleware called directly resolves to that value: no error is
\* made up, no position beyond i is entered and no outer continuation is
\* called.
C34_OwnValueIsTheResult ==
  LET i == FirstNonForwarder
  IN ( entry = "composed" /\ i < Len(brigade) /\ brigade[i + 1] = "Own" )
     => /\ Count("outerNext", 1) = 0
        /\ Count("outerSkip", 1) = 0
        /\ \A k \in 1..Len(events) : events[k].e = "enter" => events[k].pos <= i
        /\ \A p \in 1..Len(proms) : proms[p].st # "rejected"
        /\ ( Returned(1) /\ Outcome(1).st # "pending" )
             => Outcome(1) = [ Resolved(OwnValue("Own"), "mw") EXCEPT !.src = Outcome(1).src ]
        /\ ( Returned(1) /\ Quiescent ) => Outcome(1).st = "resolved"

\* The last of three middleware answered by itself and the brigade is done.
C34_Witness ==
  /\ entry = "composed"
  /\ Len(brigade) = 3
  /\ brigade[1] \in Forwarders
  /\ brigade[2] = "Own"
  /\ Count("enter", 1) = 2
  /\ Returned(1)
  /\ Quiescent
  /\ Outcome(1).st = "resolved"
  /\ Outcome(1).val = "own"

\* Every middleware of the brigade calls one continuation once and returns
\* what it gave.
AllAbiding ==
  \A j \in 1..Len(brigade) : brigade[j] \in Abiding \cup { "FwdArgs", "SkipArgs" }

\* C35: callMiddleware called without a response, on a brigade whose
\* middleware all call one continuation once and return its value, always
\* ends in the rejection for an undefined result.
C35_NoResponseAlwaysRejects ==
  ( /\ entry = "callMiddleware"
    /\ response = "undefined"
    /\ AllAbiding
    /\ Len(final) = 1
    /\ final[1].st # "pending" )
  => final[1] = Rejected(UndefinedResultError, "then")

\* The errors locatedError made the message of, for a position in the brigade.
LocatedErrorsRaised ==
  { e \in TypeErrorsRaised \cup ViolationErrorsRaised : e.pos \in 0..(Len(brigade) - 1) }

\* C38: in the message of an error made by the brigade a middleware without
\* a name is identified by the placeholder, a middleware with a name by its
\* name.
C38_PlaceholderForUnnamed ==
  \A e \in LocatedErrorsRaised :
    e.name = IF brigade[e.pos + 1] \in anonymous THEN Placeholder ELSE brigade[e.pos + 1]

\* C38 as amended: a middleware with a name is identified by its name and a
\* middleware without one by the empty name; the placeholder stands only for
\* a position that is not in the brigade.
C38_NameOrEmpty ==
  /\ \A e \in LocatedErrorsRaised :
       e.name = IF brigade[e.pos + 1] \in anonymous THEN "" ELSE brigade[e.pos + 1]
  /\ \A e \in TypeErrorsRaised \cup ViolationErrorsRaised :
       e.name = Placeholder => e.pos \notin 0..(Len(brigade) - 1)

\* A middleware without a name has returned a value that is no promise.
C38_Witness ==
  /\ anonymous = AnonymousArgs
  /\ brigade = << "SkipArgs" >>
  /\ \E e \in LocatedErrorsRaised : e.pos = 0 /\ e.name = ""

\* The calls of the caller: the one on compose(brigade) and the one on the
\* composition of the flat brigade.
CallsOn(unit) ==
  { r \in 1..Len(parent) : parent[r].inv = 0 /\ parent[r].unit = unit }

\* The position in the flat brigade of the middleware event x is about.
FlatPos(x) ==
  IF parent[x.inv].inv # 0 THEN NestedAt + x.pos
  ELSE IF parent[x.inv].unit = "flat" \/ x.pos < NestedAt THEN x.pos
  ELSE x.pos + Len(inner) - 1

\* The middleware entered and the outer continuations called in the course of
\* call r, in order, by position in the flat brigade; the nested composed
\* middleware itself is no middleware of the flat brigade.
RECURSIVE TraceOf(_, _)
TraceOf(log, r) ==
  IF log = << >> THEN << >>
  ELSE LET x == Head(log)
           seen ==
             IF Root(parent, x.inv) # r THEN << >>
             ELSE IF x.e = "enter"
             THEN IF BrigadeIn(parent, x.inv)[x.pos + 1] = "Nested" THEN << >>
                  ELSE << [e |-> "enter", pos |-> FlatPos(x)] >>
             ELSE IF x.e \in { "outerNext", "outerSkip" } /\ x.inv = r
             THEN << [e |-> x.e, pos |-> -1] >>
             ELSE << >>
       IN seen \o TraceOf(Tail(log), r)

\* What the outer continuation called in the course of call r did: which one
\* it was, how it returned and the state of the promise it returned.
OuterDid(r) ==
  { [op |-> outerArgs[k].op, kind |-> outerArgs[k].kind,
     st |-> IF outerArgs[k].prom = 0 THEN "none" ELSE proms[outerArgs[k].prom].st]
    : k \in { n \in 1..Len(outerArgs) : outerArgs[n].inv = r } }

\* The outcome of the promise call r returned.
ResultOf(r) == [st |-> Outcome(r).st, val |-> Outcome(r).val, err |-> Outcome(r).err]

\* The same, less the position a type error carries.
ResultLessPosition(r) ==
  IF Outcome(r).err.k = "type"
  THEN [ ResultOf(r) EXCEPT !.err.pos = 0 ]
  ELSE ResultOf(r)

\* Every middleware of both brigades calls one continuation once and returns
\* what it gave.
AbidingBrigades ==
  /\ \A j \in 1..Len(brigade) : brigade[j] \in Abiding \cup { "Nested" }
  /\ \A j \in 1..Len(inner) : inner[j] \in Abiding

\* Both calls have been made and everything they started has run.
BothDone ==
  /\ toInvoke = 0
  /\ Quiescent
  /\ \A r \in CallsOn("brigade") \cup CallsOn("flat") : Returned(r)

\* C36: for middleware that each call one continuation once and return its
\* value, the brigade with the nested composed middleware and the flat
\* brigade enter the middleware and call the outer continuations in the same
\* order and, the outer continuation doing the same, end with the same
\* result.
C36_NestedEqualsFlat ==
  ( AbidingBrigades /\ BothDone ) =>
    \A rn \in CallsOn("brigade") : \A rf \in CallsOn("flat") :
      /\ TraceOf(events, rn) = TraceOf(events, rf)
      /\ OuterDid(rn) = OuterDid(rf) => ResultOf(rn) = ResultOf(rf)

\* C36 as amended: the same order, and the same result but for the position
\* in a type error for a value of an outer continuation that is no promise,
\* which counts within the brigade whose dispatch met the value.
C36_NestedEqualsFlatButPosition ==
  ( AbidingBrigades /\ BothDone ) =>
    \A rn \in CallsOn("brigade") : \A rf \in CallsOn("flat") :
      /\ TraceOf(events, rn) = TraceOf(events, rf)
      /\ OuterDid(rn) = OuterDid(rf) => ResultLessPosition(rn) = ResultLessPosition(rf)

\* compose([a, compose([b, c]), d]) and compose([a, b, c, d]) have both run
\* to the outer next, which resolved.
C36_Witness ==
  /\ entry = "composed"
  /\ brigade = << "Fwd", "Nested", "Fwd" >>
  /\ inner = << "Fwd", "Fwd" >>
  /\ BothDone
  /\ \E rn \in CallsOn("brigade") : \E rf \in CallsOn("flat") :
       /\ Len(TraceOf(events, rn)) = 5
       /\ OuterDid(rn) = { [op |-> "next", kind |-> "resolved", st |-> "resolved"] }
       /\ OuterDid(rf) = OuterDid(rn)
       /\ ResultOf(rn) = ResultOf(rf)
       /\ ResultOf(rn).st = "resolved"

\* The promise of call r has settled as the promise the outer continuation
\* returned to that call has.
SettledAsOuter(r) ==
  /\ Returned(r)
  /\ Outcome(r).st \in { "resolved", "rejected" }
  /\ \A k \in 1..Len(outerArgs) :
       ( outerArgs[k].inv = r /\ outerArgs[k].prom # 0 ) =>
         /\ proms[outerArgs[k].prom].st = Outcome(r).st
         /\ proms[outerArgs[k].prom].val = Outcome(r).val
         /\ proms[outerArgs[k].prom].err = Outcome(r).err

\* C37: when every middleware of the brigade calls one continuation once and
\* returns the promise it got, and the promise of the outer continuation
\* settles, the promise of the composed middleware settles in the end, with
\* the same outcome.
C37_AbidingBrigadeSettles ==
  ( Returned(1) /\ \A j \in 1..Len(brigade) : brigade[j] \in Abiding )
    ~> ( SettledAsOuter(1) /\ Quiescent /\ OuterCalls(events, 1) = 1 )

\* A brigade of three has settled after its outer next returned a promise
\* that was pending and has been resolved since.
C37_Witness ==
  /\ entry = "composed"
  /\ Len(brigade) = 3
  /\ \A j \in 1..3 : brigade[j] \in Forwarders
  /\ brigade[2] = "LateNext"
  /\ SettledAsOuter(1)
  /\ Quiescent
  /\ \E k \in 1..Len(outerArgs) :
       outerArgs[k] = [op |-> "next", args |-> << >>, inv |-> 1, kind |-> "pending",
                       prom |-> outerArgs[k].prom]
  /\ Outcome(1).st = "resolved"

====
